---- MODULE Spec2Model ----
(***************************************************************************)
(* Native-function dispatch boundary of the Move VM:                       *)
(*   - NativeFunctions: the registry built from a registration table and   *)
(*     queried with resolve;                                               *)
(*   - NativeContext: the per-call context a native implementation uses to *)
(*     reach the data store, the resolver, the gas schedule and the host   *)
(*     extensions.                                                         *)
(* Source: language/move-vm/runtime/src/native_functions.rs                *)
(***************************************************************************)
EXTENDS Integers, Sequences, FiniteSets, TLC

(***************************************************************************)
(* Bounds of the model.                                                    *)
(***************************************************************************)
\* longest registration table handed to NativeFunctions::new
MaxTable == 3
\* most context operations one native invocation performs
MaxOps == 3
\* longest registration table of a registry shared between VM instances
MaxShared == 2
\* most raw entries handed to make_table
MaxRaw == 2
\* most context operations of the two invocations that are compared
MaxTwinOps == 3
\* most messages the main loop of the language server handles
MaxMsgs == 3
\* most context operations of an invocation that also uses the gas schedule
\* and the host extensions
MaxViewOps == 2

(***************************************************************************)
(* Value universes.                                                        *)
(***************************************************************************)
Addresses == {"0x1", "0x2"}
ModuleNames == {"vector", "hash"}
FunctionNames == {"length", "push_back"}
\* fn pointers: the native implementations a table can register
Implementations == {"native_a", "native_b"}

\* Option<T>
None == [tag |-> "None"]
Some(x) == [tag |-> "Some", value |-> x]

\* Result<T, E>
Ok(x) == [tag |-> "Ok", value |-> x]
Err(e) == [tag |-> "Err", err |-> e]

\* PartialVMError::new(major_status): no sub status, no message
PartialVMError_new(status) == [major_status |-> status, sub_status |-> None]

\* event arguments a native implementation passes to save_event
Guids == {"G1", "G2"}
SeqNums == {0}
Types == {"u64", "T"}
Values == {"v1", "v2"}

\* answers of the resolver
TypeTags == {"U64", "Struct"}
MoveTypeLayouts == {"layout_u64", "layout_struct"}

\* StatusCode values the collaborators report
StatusCodes == {"UNKNOWN_INVARIANT_VIOLATION_ERROR", "MISSING_DATA", "UNKNOWN_VERIFICATION_ERROR"}

\* StatusCode::status_type
status_type(status) ==
    CASE status = "UNKNOWN_INVARIANT_VIOLATION_ERROR" -> "InvariantViolation"
      [] status = "DUPLICATE_NATIVE_FUNCTION" -> "InvariantViolation"
      [] status = "MISSING_DATA" -> "Execution"
      [] status = "UNKNOWN_VERIFICATION_ERROR" -> "Verification"

\* PartialVMError values a collaborator can answer with; each carries a sub status
PartialVMErrors == [major_status : StatusCodes, sub_status : {Some(1)}]

\* ()
Unit == "unit"

\* NativeResult: success, or an abort code of the contract language
NativeResults == {[kind |-> "Success"], [kind |-> "Abort"]}

\* HashMap::new()
EmptyMap == [k \in {} |-> k]

\* one entry of a NativeFunctionTable
NativeFunctionTableEntry ==
    [addr : Addresses, module_name : ModuleNames,
     func_name : FunctionNames, func : Implementations]

RECURSIVE SeqsUpTo(_, _)
SeqsUpTo(S, n) ==
    IF n = 0 THEN {<<>>}
    ELSE LET shorter == SeqsUpTo(S, n - 1)
         IN  shorter \cup {Append(s, x) : s \in {t \in shorter : Len(t) = n - 1}, x \in S}

\* NativeFunctionTable = Vec<(AccountAddress, Identifier, Identifier, NativeFunction)>
NativeFunctionTable == SeqsUpTo(NativeFunctionTableEntry, MaxTable)

(***************************************************************************)
(* make_table, make_table_from_iter.  A name text is a sequence of         *)
(* characters.                                                             *)
(***************************************************************************)
Letters == {"v", "h"}
Digits == {"1"}

\* module-name and function-name texts a host may write
RawNames == {<<"v">>, <<"_", "1">>, <<>>, <<"_">>, <<"1", "v">>}

\* the elems of make_table: (module name text, function name text, implementation)
RawEntry == [module_name : RawNames, func_name : RawNames, func : Implementations]

\* a legal identifier: a letter, or an underscore followed by at least one
\* character, then letters, digits and underscores only
Identifier_is_valid(s) ==
    /\ Len(s) >= 1
    /\ s[1] \in Letters \cup {"_"}
    /\ s # <<"_">>
    /\ \A i \in 2..Len(s) : s[i] \in Letters \cup Digits \cup {"_"}

\* Identifier::new
Identifier_new(s) ==
    IF Identifier_is_valid(s) THEN Ok(s) ELSE Err("Invalid identifier")

\* mutant: an entry with an invalid name is skipped instead of unwrapped
RECURSIVE collect_skip(_, _, _, _)
collect_skip(addr, elems, i, table) ==
    IF i > Len(elems) THEN [tag |-> "Table", value |-> table]
    ELSE IF Identifier_new(elems[i].module_name).tag = "Err"
            \/ Identifier_new(elems[i].func_name).tag = "Err"
         THEN collect_skip(addr, elems, i + 1, table)
         ELSE collect_skip(addr, elems, i + 1,
                  Append(table, [addr |-> addr,
                                 module_name |-> Identifier_new(elems[i].module_name).value,
                                 func_name |-> Identifier_new(elems[i].func_name).value,
                                 func |-> elems[i].func]))

make_table_from_iter_skip(addr, elems) == collect_skip(addr, elems, 1, <<>>)

\* elems.into_iter().map(..).collect() from the i-th element on: the closure
\* unwraps the module name, then the function name; an unwrap of Err panics
\* and nothing is collected
RECURSIVE collect(_, _, _, _)
collect(addr, elems, i, table) ==
    IF i > Len(elems) THEN [tag |-> "Table", value |-> table]
    ELSE IF Identifier_new(elems[i].module_name).tag = "Err"
         THEN [tag |-> "Panic", at |-> i, name |-> "module_name"]
    ELSE IF Identifier_new(elems[i].func_name).tag = "Err"
         THEN [tag |-> "Panic", at |-> i, name |-> "func_name"]
    ELSE collect(addr, elems, i + 1,
             Append(table, [addr |-> addr,
                            module_name |-> Identifier_new(elems[i].module_name).value,
                            func_name |-> Identifier_new(elems[i].func_name).value,
                            func |-> elems[i].func]))

\* make_table_from_iter
make_table_from_iter(addr, elems) == collect(addr, elems, 1, <<>>)

\* make_table
make_table(addr, elems) == make_table_from_iter(addr, elems)

(***************************************************************************)
(* NativeFunctions                                                         *)
(***************************************************************************)

\* map.entry(key).or_insert_with(HashMap::new): the value under key, a fresh
\* map when the key is vacant
entry_or_insert_with(map, key) ==
    IF key \in DOMAIN map THEN map[key] ELSE EmptyMap

\* HashMap::insert: the map after the insertion (an occupied key is overwritten)
HashMap_insert(map, key, value) ==
    [k \in (DOMAIN map) \cup {key} |-> IF k = key THEN value ELSE map[k]]

\* mutant: the previous value of the key is never reported
insert_is_some_never(map, key) == FALSE

\* HashMap::insert(..).is_some(): the key was occupied before the insertion
insert_is_some(map, key) == key \in DOMAIN map

\* mutant: the modules map of the address is created afresh at every entry
new_insert_fresh(map, e) ==
    HashMap_insert(map, e.addr,
        HashMap_insert(EmptyMap, e.module_name,
            HashMap_insert(EmptyMap, e.func_name, e.func)))

\* one iteration of the loop of NativeFunctions::new on the entry e: the map
\* after the three-level insertion
new_insert(map, e) ==
    LET modules == entry_or_insert_with(map, e.addr)
        funcs == entry_or_insert_with(modules, e.module_name)
        funcs2 == HashMap_insert(funcs, e.func_name, e.func)
        modules2 == HashMap_insert(modules, e.module_name, funcs2)
    IN  HashMap_insert(map, e.addr, modules2)

\* the funcs map the entry e is inserted into
new_funcs(map, e) ==
    entry_or_insert_with(entry_or_insert_with(map, e.addr), e.module_name)

\* the for loop of NativeFunctions::new from the i-th entry on; consumed is the
\* number of entries taken from the iterator when the function returns
RECURSIVE new_loop(_, _, _)
new_loop(natives, i, map) ==
    IF i > Len(natives)
    THEN [result |-> Ok(map), consumed |-> Len(natives)]
    ELSE IF insert_is_some(new_funcs(map, natives[i]), natives[i].func_name)
         THEN [result |-> Err(PartialVMError_new("DUPLICATE_NATIVE_FUNCTION")),
               consumed |-> i]
         ELSE new_loop(natives, i + 1, new_insert(map, natives[i]))

\* NativeFunctions::new
NativeFunctions_new(natives) == new_loop(natives, 1, EmptyMap)

\* a panic of the running thread
Panic == [tag |-> "Panic"]

\* mutant: the module level is indexed instead of looked up, a miss there panics
NativeFunctions_resolve_index(self, addr, module_name, func_name) ==
    IF addr \notin DOMAIN self THEN None
    ELSE IF module_name \notin DOMAIN self[addr] THEN Panic
    ELSE IF func_name \notin DOMAIN self[addr][module_name] THEN None
    ELSE Some(self[addr][module_name][func_name])

\* NativeFunctions::resolve; each ? returns None on a miss
NativeFunctions_resolve(self, addr, module_name, func_name) ==
    IF addr \notin DOMAIN self THEN None
    ELSE IF module_name \notin DOMAIN self[addr] THEN None
    ELSE IF func_name \notin DOMAIN self[addr][module_name] THEN None
    ELSE Some(self[addr][module_name][func_name])

\* VM instances that execute at the same time and share one registry
VMs == {"vm1", "vm2"}

\* mutant: the address level is read with entry().or_insert_with, which leaves
\* an empty modules map behind on a miss
resolve_get_entry(self, level, query) ==
    IF level = "address" /\ query[1] \notin DOMAIN self
    THEN [found |-> FALSE, self |-> HashMap_insert(self, query[1], EmptyMap)]
    ELSE [found |-> CASE level = "address" -> query[1] \in DOMAIN self
                      [] level = "module" -> query[2] \in DOMAIN self[query[1]]
                      [] level = "function" -> query[3] \in DOMAIN self[query[1]][query[2]],
          self |-> self]

\* one HashMap::get of NativeFunctions::resolve, at the given level of the
\* map, for the query <<addr, module_name, func_name>>: whether the key is
\* there, and the registry the read leaves (&self: the same)
resolve_get(self, level, query) ==
    [found |-> CASE level = "address" -> query[1] \in DOMAIN self
                 [] level = "module" -> query[2] \in DOMAIN self[query[1]]
                 [] level = "function" -> query[3] \in DOMAIN self[query[1]][query[2]],
     self |-> self]

\* the level resolve reads after a hit at level
NextLevel(level) ==
    CASE level = "address" -> "module"
      [] level = "module" -> "function"
      [] level = "function" -> "done"

(***************************************************************************)
(* Collaborators of NativeContext.  Each is a stub: the answer it gives to *)
(* the next call (response) is part of its state and is chosen by the      *)
(* environment.                                                            *)
(***************************************************************************)

\* the layout the data store records with an event of type ty
EventLayout(ty) == IF ty = "u64" THEN "layout_u64" ELSE "layout_struct"

\* DataStore::emit_event: an accepting store appends the event to its log and
\* answers Ok(()); a rejecting store answers its error and appends nothing.
\* The store keeps the arguments of every call it receives in calls.
DataStore_emit_event(data_store, guid, seq_num, ty, val) ==
    IF data_store.response.tag = "Ok"
    THEN [result |-> Ok(Unit),
          data_store |-> [data_store EXCEPT
              !.events = Append(@, <<guid, seq_num, ty, EventLayout(ty), val>>),
              !.calls = Append(@, <<guid, seq_num, ty, val>>)]]
    ELSE [result |-> data_store.response,
          data_store |-> [data_store EXCEPT
              !.calls = Append(@, <<guid, seq_num, ty, val>>)]]

\* DataStore::events
DataStore_events(data_store) == data_store.events

\* Loader::type_to_type_tag, reached through resolver.loader()
Loader_type_to_type_tag(resolver, ty) == resolver.response

\* Resolver::type_to_type_layout
Resolver_type_to_type_layout(resolver, ty) == resolver.response

\* Interpreter::debug_print_stack_trace: the dump goes to buf on success
Interpreter_debug_print_stack_trace(interpreter, buf) ==
    IF interpreter.response.tag = "Ok"
    THEN [result |-> Ok(Unit), buf |-> "stack trace"]
    ELSE [result |-> interpreter.response, buf |-> buf]

(***************************************************************************)
(* NativeContext.  Every operation yields the value it returns to the      *)
(* native implementation (ret), the collaborator's answer (collab), whether *)
(* the code compared the status type of a collaborator error with          *)
(* InvariantViolation (classified), and the collaborator state it leaves.  *)
(***************************************************************************)

\* e.major_status().status_type() == StatusType::InvariantViolation
is_invariant_violation(e) == status_type(e.major_status) = "InvariantViolation"

\* mutant: an invariant violation is answered with a fresh error of the same status
save_event_match_fresh(emitted) ==
    IF emitted.tag = "Ok" THEN Ok(TRUE)
    ELSE IF is_invariant_violation(emitted.err)
         THEN Err(PartialVMError_new(emitted.err.major_status))
    ELSE Ok(FALSE)

\* mutant: every rejection is propagated, none is downgraded to false
save_event_match_strict(emitted) ==
    IF emitted.tag = "Ok" THEN Ok(TRUE) ELSE Err(emitted.err)

\* mutant: an invariant violation is downgraded to false like any rejection
save_event_match_lenient(emitted) ==
    IF emitted.tag = "Ok" THEN Ok(TRUE) ELSE Ok(FALSE)

\* the match of save_event on the answer of emit_event
save_event_match(emitted) ==
    IF emitted.tag = "Ok" THEN Ok(TRUE)
    ELSE IF is_invariant_violation(emitted.err) THEN Err(emitted.err)
    ELSE Ok(FALSE)

\* mutant: an accepted event is submitted to the store a second time
save_event_resubmit(data_store, guid, seq_num, ty, val) ==
    LET emitted == DataStore_emit_event(data_store, guid, seq_num, ty, val)
        again == DataStore_emit_event(emitted.data_store, guid, seq_num, ty, val)
    IN  [ret |-> save_event_match(emitted.result),
         collab |-> emitted.result,
         classified |-> emitted.result.tag = "Err",
         data_store |-> again.data_store]

\* mutant: the event is not handed to the store, the store's answer is still reported
save_event_skip(data_store, guid, seq_num, ty, val) ==
    LET emitted == DataStore_emit_event(data_store, guid, seq_num, ty, val)
    IN  [ret |-> save_event_match(emitted.result),
         collab |-> emitted.result,
         classified |-> emitted.result.tag = "Err",
         data_store |-> data_store]

\* mutant: an event the store rejected softly is submitted a second time
save_event_retry(data_store, guid, seq_num, ty, val) ==
    LET emitted == DataStore_emit_event(data_store, guid, seq_num, ty, val)
        again == DataStore_emit_event(emitted.data_store, guid, seq_num, ty, val)
    IN  [ret |-> save_event_match(emitted.result),
         collab |-> emitted.result,
         classified |-> emitted.result.tag = "Err",
         data_store |-> IF save_event_match(emitted.result) = Ok(FALSE)
                        THEN again.data_store ELSE emitted.data_store]

\* NativeContext::save_event
save_event(data_store, guid, seq_num, ty, val) ==
    LET emitted == DataStore_emit_event(data_store, guid, seq_num, ty, val)
    IN  [ret |-> save_event_match(emitted.result),
         collab |-> emitted.result,
         classified |-> emitted.result.tag = "Err",
         data_store |-> emitted.data_store]

\* NativeContext::events
events_ref(data_store) == DataStore_events(data_store)

\* mutant: the two-track classification of type_to_type_layout applied to the tag
type_to_type_tag_downgrade(resolver, ty) ==
    LET answer == Loader_type_to_type_tag(resolver, ty)
    IN  [ret |-> IF answer.tag = "Ok" \/ is_invariant_violation(answer.err)
                 THEN answer ELSE Ok(None),
         collab |-> answer, classified |-> answer.tag = "Err"]

\* NativeContext::type_to_type_tag: the loader's answer as it is
type_to_type_tag(resolver, ty) ==
    LET answer == Loader_type_to_type_tag(resolver, ty)
    IN  [ret |-> answer, collab |-> answer, classified |-> FALSE]

\* mutant: an invariant violation is downgraded to "no layout" too
type_to_type_layout_match_lenient(answer) ==
    IF answer.tag = "Ok" THEN Ok(Some(answer.value)) ELSE Ok(None)

\* the match of type_to_type_layout on the answer of the resolver
type_to_type_layout_match(answer) ==
    IF answer.tag = "Ok" THEN Ok(Some(answer.value))
    ELSE IF is_invariant_violation(answer.err) THEN Err(answer.err)
    ELSE Ok(None)

\* mutant: the resolver's error is handed on without the status type check
type_to_type_layout_unclassified(resolver, ty) ==
    LET answer == Resolver_type_to_type_layout(resolver, ty)
    IN  [ret |-> IF answer.tag = "Ok" THEN Ok(Some(answer.value)) ELSE answer,
         collab |-> answer,
         classified |-> FALSE]

\* NativeContext::type_to_type_layout
type_to_type_layout(resolver, ty) ==
    LET answer == Resolver_type_to_type_layout(resolver, ty)
    IN  [ret |-> type_to_type_layout_match(answer),
         collab |-> answer,
         classified |-> answer.tag = "Err"]

\* NativeContext::print_stack_trace: the interpreter's answer as it is
print_stack_trace(interpreter, buf) ==
    LET dumped == Interpreter_debug_print_stack_trace(interpreter, buf)
    IN  [ret |-> dumped.result, collab |-> dumped.result,
         classified |-> FALSE, buf |-> dumped.buf]

\* a shared reference handed to the native implementation
Ref(x) == [tag |-> "Ref", value |-> x]

\* gas schedules a VM may run under
CostTables == {"zero_cost_schedule", "initial_cost_schedule"}

\* GasStatus: the active cost table and the gas left
GasStatuses == [cost_table : CostTables, gas_left : {10}]

\* GasStatus::cost_table
GasStatus_cost_table(gas_status) == gas_status.cost_table

\* mutant: the look at the cost table is charged one unit of gas
cost_table_charge(gas_status) ==
    [ret |-> Ref(GasStatus_cost_table(gas_status)),
     collab |-> [tag |-> "Ref"], classified |-> FALSE,
     gas_status |-> [gas_status EXCEPT !.gas_left = @ - 1]]

\* NativeContext::cost_table: a reference to the cost table of the gas status,
\* which is borrowed immutably
cost_table(gas_status) ==
    [ret |-> Ref(GasStatus_cost_table(gas_status)),
     collab |-> [tag |-> "Ref"], classified |-> FALSE,
     gas_status |-> gas_status]

\* extension types a host may supply, and the states of an extension object
ExtensionTypes == {"TableExt", "EventExt"}
ExtensionStates == {0, 1}

\* NativeContextExtensions::get::<ty>: the member of type ty, None when the
\* set has no member of that type
NativeContextExtensions_get(exts, ty) ==
    IF ty \in DOMAIN exts THEN Some(exts[ty]) ELSE None

\* NativeContextExtensions::get_mut::<ty>, then a write of st to the member:
\* the set afterwards; a type the set does not have is not added
NativeContextExtensions_set(exts, ty, st) ==
    IF ty \in DOMAIN exts THEN [exts EXCEPT ![ty] = st] ELSE exts

\* NativeContext::extensions
extensions_ref(exts) == exts

\* mutant: a new, empty extension set is handed out
extensions_mut_fresh(exts) == EmptyMap

\* NativeContext::extensions_mut
extensions_mut(exts) == exts

\* the sub-outcome of a context operation in the state machine of one native
\* invocation, from the collaborator's answer
SubOutcome(op, collab) ==
    CASE op = "save_event" ->
            IF collab.tag = "Ok" THEN "Recorded"
            ELSE IF is_invariant_violation(collab.err) THEN "RejectedFatal"
            ELSE "RejectedSoft"
      [] op = "type_to_type_layout" ->
            IF collab.tag = "Ok" THEN "Resolved"
            ELSE IF is_invariant_violation(collab.err) THEN "ResolutionFatal"
            ELSE "LayoutUnavailable"
      [] op = "type_to_type_tag" ->
            IF collab.tag = "Ok" THEN "Resolved" ELSE "ResolutionFatal"
      [] OTHER -> "none"

IsFatal(op, collab) == SubOutcome(op, collab) \in {"RejectedFatal", "ResolutionFatal"}

VARIABLES
    natives,     \* the registration table the host supplies
    built,       \* what the caller of NativeFunctions::new holds: Pending before the call, then its PartialVMResult
    consumed,    \* entries taken from the table's iterator by NativeFunctions::new
    resolved,    \* the last resolve call: its query and its result
    inv,         \* state of the native invocation
    events,      \* the event log of the data store
    buf,         \* the sink the native implementation hands to print_stack_trace
    call,        \* the last context operation: name, arguments, collaborator's answer, returned value
    ops,         \* context operations performed by the invocation
    outcome,     \* what the native implementation returned to the interpreter
    events0,     \* history: the event log when the invocation began
    accepted,    \* history: the events the data store accepted, in call order
    fatalAt,     \* history: value of ops at the first fatal sub-outcome, 0 when none occurred
    fatalErr,    \* history: the error of the first fatal sub-outcome
    emit_calls,  \* history: the calls the data store received from the last context operation
    swallowed,   \* history: after a fatal sub-outcome the native implementation did something else than return its error
    vm,          \* per VM instance: the resolve call it is executing on the shared registry
    raw,         \* the raw entries the host hands to make_table
    made,        \* what the caller of make_table holds: Pending, then the table or the panic
    server,      \* where main of the language server is: Loop, Left, Joined, Quit or Panicked
    missing_manifest_reported,  \* the flag of main
    exit_received,  \* history: the client sent an Exit notification
    handled,     \* history: how many messages the main loop took from its two channels
    manifest_seen,  \* history: how many missing-manifest errors the symbolicator sent
    last,        \* history: what the last turn of the main loop received and did
    twin,        \* two invocations of one native: L calls print_stack_trace, R does not
    gas_status,  \* the gas status the context borrows
    extensions   \* the host extension set the context borrows: extension type -> state of the object

registryVars == <<natives, built, consumed, resolved>>

contextVars == <<inv, events, buf, call, ops, outcome, events0, accepted, fatalAt, fatalErr, swallowed, emit_calls>>

sharedVars == <<vm>>

vars == <<natives, built, consumed, resolved,
          inv, events, buf, call, ops, outcome, events0, accepted, fatalAt, fatalErr, swallowed, emit_calls,
          vm, raw, made, gas_status, extensions,
          server, missing_manifest_reported, exit_received, handled, manifest_seen, last,
          twin>>

serverVars == <<server, missing_manifest_reported, exit_received, handled, manifest_seen, last>>

viewVars == <<gas_status, extensions>>

tableVars == <<raw, made>>

\* what a registry action leaves alone
outsideRegistry == <<contextVars, viewVars, sharedVars, tableVars, serverVars, twin>>

\* what an action of the native invocation leaves alone
outsideContext == <<registryVars, sharedVars, tableVars, serverVars, twin>>

Pending == [tag |-> "Pending"]
NoCall == [tag |-> "NoCall"]

\* an event recorded by an earlier native call of the same execution
EarlierEvent == <<"G0", 0, "u64", "layout_u64", "v0">>

\* the registry before NativeFunctions::new is called
RegistryIdle ==
    /\ built = Pending
    /\ consumed = 0
    /\ resolved = NoCall

\* make_table has not been called
TableIdle ==
    /\ raw = <<>>
    /\ made = [tag |-> "Pending"]

\* no VM instance has called resolve
SharedIdle == vm = [v \in VMs |-> [pc |-> "idle"]]

\* an invocation whose native implementation has called nothing yet
FreshRun == [events |-> <<>>, buf |-> "", outcome |-> [tag |-> "Pending"]]

\* the two invocations before their native implementation calls anything
TwinIdle ==
    twin = [L |-> FreshRun, R |-> FreshRun, ops |-> 0, traces |-> 0, propagated |-> FALSE]

\* what the last turn of the main loop did, before the first turn
NoTurn == [from |-> "none"]

\* the language server when main enters its loop
ServerIdle ==
    /\ server = "Loop"
    /\ missing_manifest_reported = FALSE
    /\ exit_received = FALSE
    /\ handled = 0
    /\ manifest_seen = 0
    /\ last = NoTurn

\* the gas status and the extension set of an execution that uses neither
ViewsIdle ==
    /\ gas_status = [cost_table |-> "zero_cost_schedule", gas_left |-> 10]
    /\ extensions = EmptyMap

\* the invocation before the interpreter builds the context
ContextIdle ==
    /\ inv = "Invoked"
    /\ buf = ""
    /\ call = NoCall
    /\ ops = 0
    /\ outcome = Pending
    /\ accepted = <<>>
    /\ fatalAt = 0
    /\ fatalErr = None
    /\ emit_calls = <<>>
    /\ swallowed = FALSE

RegistryInit ==
    /\ natives \in NativeFunctionTable
    /\ RegistryIdle
    /\ events = <<>>
    /\ events0 = <<>>
    /\ ContextIdle
    /\ ViewsIdle
    /\ ServerIdle
    /\ TwinIdle
    /\ SharedIdle
    /\ TableIdle

\* the host builds the registry: NativeFunctions::new(natives)
New ==
    /\ built = Pending
    /\ built' = NativeFunctions_new(natives).result
    /\ consumed' = NativeFunctions_new(natives).consumed
    /\ UNCHANGED <<natives, resolved>>
    /\ UNCHANGED outsideRegistry

\* the interpreter resolves a call target on the built registry
Resolve(addr, module_name, func_name) ==
    /\ built.tag = "Ok"
    /\ resolved' = [tag |-> "Call", addr |-> addr, module_name |-> module_name,
                    func_name |-> func_name,
                    result |-> NativeFunctions_resolve(built.value, addr, module_name, func_name)]
    /\ UNCHANGED <<natives, built, consumed>>
    /\ UNCHANGED outsideRegistry

RegistryNext ==
    \/ New
    \/ \E addr \in Addresses, module_name \in ModuleNames, func_name \in FunctionNames :
          Resolve(addr, module_name, func_name)

RegistrySpec == RegistryInit /\ [][RegistryNext]_vars

(***************************************************************************)
(* One registry shared by the VM instances.  Each instance executes one    *)
(* resolve call, one HashMap::get at a time, interleaved with the others.  *)
(***************************************************************************)
SharedInit ==
    /\ natives \in SeqsUpTo(NativeFunctionTableEntry, MaxShared)
    /\ RegistryIdle
    /\ events = <<>>
    /\ events0 = <<>>
    /\ ContextIdle
    /\ ViewsIdle
    /\ ServerIdle
    /\ TwinIdle
    /\ SharedIdle
    /\ TableIdle

\* the VM instance v reads the next level of its resolve call
ResolveGet(v, level, query) ==
    LET got == resolve_get(built.value, level, query)
    IN  /\ built' = [built EXCEPT !.value = got.self]
        /\ vm' = [vm EXCEPT ![v] =
                    IF ~got.found
                    THEN [pc |-> "done", query |-> query, result |-> None]
                    ELSE IF level = "function"
                    THEN [pc |-> "done", query |-> query,
                          result |-> Some(got.self[query[1]][query[2]][query[3]])]
                    ELSE [pc |-> NextLevel(level), query |-> query]]
        /\ UNCHANGED <<natives, consumed, resolved>>
        /\ UNCHANGED <<contextVars, viewVars, tableVars, serverVars, twin>>

\* v calls resolve(addr, module_name, func_name): self.0.get(addr)?
ResolveBegin(v, addr, module_name, func_name) ==
    /\ built.tag = "Ok"
    /\ vm[v].pc = "idle"
    /\ ResolveGet(v, "address", <<addr, module_name, func_name>>)

\* v goes on with its call: .get(module_name)?, then .get(func_name).cloned()
ResolveContinue(v) ==
    /\ built.tag = "Ok"
    /\ vm[v].pc \in {"module", "function"}
    /\ ResolveGet(v, vm[v].pc, vm[v].query)

SharedNext ==
    \/ New
    \/ \E v \in VMs, addr \in Addresses, module_name \in ModuleNames,
          func_name \in FunctionNames :
          ResolveBegin(v, addr, module_name, func_name)
    \/ \E v \in VMs : ResolveContinue(v)

SharedSpec == SharedInit /\ [][SharedNext]_vars

(***************************************************************************)
(* The host assembles a registration table from name texts.                *)
(***************************************************************************)
TableInit ==
    /\ raw \in SeqsUpTo(RawEntry, MaxRaw)
    /\ made = [tag |-> "Pending"]
    /\ natives = <<>>
    /\ RegistryIdle
    /\ events = <<>>
    /\ events0 = <<>>
    /\ ContextIdle
    /\ ViewsIdle
    /\ ServerIdle
    /\ TwinIdle
    /\ SharedIdle

\* the host calls make_table(addr, &raw)
MakeTable(addr) ==
    /\ made.tag = "Pending"
    /\ made' = make_table(addr, raw)
    /\ UNCHANGED <<raw, registryVars, contextVars, viewVars, sharedVars, serverVars, twin>>

\* the host calls make_table_from_iter(addr, raw)
MakeTableFromIter(addr) ==
    /\ made.tag = "Pending"
    /\ made' = make_table_from_iter(addr, raw)
    /\ UNCHANGED <<raw, registryVars, contextVars, viewVars, sharedVars, serverVars, twin>>

TableNext ==
    \/ \E addr \in Addresses : MakeTable(addr)
    \/ \E addr \in Addresses : MakeTableFromIter(addr)

TableSpec == TableInit /\ [][TableNext]_vars

(***************************************************************************)
(* One native invocation.  The native implementation is any code of type   *)
(* NativeFunction: while it executes it may call any context operation     *)
(* with any arguments, and it may return any PartialVMResult<NativeResult>. *)
(***************************************************************************)
ContextInit ==
    /\ natives = <<>>
    /\ RegistryIdle
    /\ events0 \in {<<>>, <<EarlierEvent>>}
    /\ events = events0
    /\ ContextIdle
    /\ ViewsIdle
    /\ ServerIdle
    /\ TwinIdle
    /\ SharedIdle
    /\ TableIdle

\* NativeContext::new, then the interpreter calls the native implementation
Invoke ==
    /\ inv = "Invoked"
    /\ inv' = "Executing"
    /\ UNCHANGED <<events, buf, call, ops, outcome, events0, accepted, fatalAt, fatalErr, swallowed, emit_calls>>
    /\ UNCHANGED viewVars
    /\ UNCHANGED outsideContext

\* the native implementation may call a context operation
CanCall == inv = "Executing" /\ ops < MaxOps

\* bookkeeping of a context operation op that answered r
Called(op, args, r) ==
    /\ call' = [tag |-> "Call", op |-> op, args |-> args, collab |-> r.collab,
                ret |-> r.ret, classified |-> r.classified]
    /\ ops' = ops + 1
    /\ IF fatalAt = 0 /\ IsFatal(op, r.collab)
       THEN fatalAt' = ops + 1 /\ fatalErr' = Some(r.collab.err)
       ELSE UNCHANGED <<fatalAt, fatalErr>>
    /\ swallowed' = (swallowed \/ fatalAt # 0)
    /\ emit_calls' = IF op = "save_event" THEN r.data_store.calls ELSE <<>>
    /\ UNCHANGED <<inv, outcome, events0>>
    /\ UNCHANGED outsideContext

\* ctx.save_event(guid, seq_num, ty, val) against a store that answers response
SaveEvent(guid, seq_num, ty, val, response) ==
    /\ CanCall
    /\ LET r == save_event([events |-> events, response |-> response, calls |-> <<>>],
                           guid, seq_num, ty, val)
       IN  /\ events' = r.data_store.events
           /\ accepted' = IF response.tag = "Ok"
                          THEN Append(accepted, <<guid, seq_num, ty, EventLayout(ty), val>>)
                          ELSE accepted
           /\ Called("save_event", <<guid, seq_num, ty, val>>, r)
    /\ UNCHANGED <<buf, gas_status, extensions>>

\* ctx.events()
Events ==
    /\ CanCall
    /\ Called("events", <<>>,
              [ret |-> Ref(events_ref([events |-> events])),
               collab |-> [tag |-> "Ref"], classified |-> FALSE])
    /\ UNCHANGED <<events, buf, accepted, gas_status, extensions>>

\* ctx.type_to_type_tag(&ty) against a loader that answers response
TypeToTypeTag(ty, response) ==
    /\ CanCall
    /\ Called("type_to_type_tag", <<ty>>, type_to_type_tag([response |-> response], ty))
    /\ UNCHANGED <<events, buf, accepted, gas_status, extensions>>

\* ctx.type_to_type_layout(&ty) against a resolver that answers response
TypeToTypeLayout(ty, response) ==
    /\ CanCall
    /\ Called("type_to_type_layout", <<ty>>, type_to_type_layout([response |-> response], ty))
    /\ UNCHANGED <<events, buf, accepted, gas_status, extensions>>

\* ctx.print_stack_trace(&mut buf) against an interpreter that answers response
PrintStackTrace(response) ==
    /\ CanCall
    /\ LET r == print_stack_trace([response |-> response], buf)
       IN  /\ buf' = r.buf
           /\ Called("print_stack_trace", <<>>, r)
    /\ UNCHANGED <<events, accepted, gas_status, extensions>>

\* state of the invocation after the native implementation returned result
Ended(result) ==
    IF result.tag = "Err" THEN "Failed"
    ELSE IF result.value.kind = "Abort" THEN "AbortedSoft"
    ELSE "Returned"

\* the native implementation returns result to the interpreter
NativeReturn(result) ==
    /\ inv = "Executing"
    /\ inv' = Ended(result)
    /\ outcome' = result
    /\ swallowed' = (swallowed \/ (fatalAt # 0 /\ result # Err(fatalErr.value)))
    /\ UNCHANGED <<events, buf, call, ops, events0, accepted, fatalAt, fatalErr, emit_calls>>
    /\ UNCHANGED viewVars
    /\ UNCHANGED outsideContext

\* answers of a collaborator whose success carries the values of S
Answers(S) == {Ok(x) : x \in S} \cup {Err(e) : e \in PartialVMErrors}

ContextNext ==
    \/ Invoke
    \/ \E guid \in Guids, seq_num \in SeqNums, ty \in Types, val \in Values,
          response \in Answers({Unit}) :
          SaveEvent(guid, seq_num, ty, val, response)
    \/ Events
    \/ \E ty \in Types, response \in Answers(TypeTags) : TypeToTypeTag(ty, response)
    \/ \E ty \in Types, response \in Answers(MoveTypeLayouts) : TypeToTypeLayout(ty, response)
    \/ \E response \in Answers({Unit}) : PrintStackTrace(response)
    \/ \E result \in {Ok(n) : n \in NativeResults} \cup {Err(e) : e \in PartialVMErrors} :
          NativeReturn(result)

ContextSpec == ContextInit /\ [][ContextNext]_vars

(***************************************************************************)
(* One native invocation that also looks at the gas schedule and uses the  *)
(* host extensions, under any gas status and extension set the interpreter *)
(* builds the context with.                                                *)
(***************************************************************************)
ViewsInit ==
    /\ natives = <<>>
    /\ RegistryIdle
    /\ events0 = <<>>
    /\ events = events0
    /\ ContextIdle
    /\ gas_status \in GasStatuses
    /\ extensions \in {[ty \in {"TableExt"} |-> 0], [ty \in ExtensionTypes |-> 0]}
    /\ ServerIdle
    /\ TwinIdle
    /\ SharedIdle
    /\ TableIdle

\* the native implementation may call a further context operation
CanCallView == inv = "Executing" /\ ops < MaxViewOps

\* ctx.cost_table()
CostTable ==
    /\ CanCallView
    /\ LET r == cost_table(gas_status)
       IN  /\ gas_status' = r.gas_status
           /\ Called("cost_table", <<>>, r)
    /\ UNCHANGED <<events, buf, accepted, extensions>>

\* ctx.extensions().get::<ty>()
Extensions(ty) ==
    /\ CanCallView
    /\ Called("extensions", <<ty>>,
              [ret |-> Ref(NativeContextExtensions_get(extensions_ref(extensions), ty)),
               collab |-> [tag |-> "Ref"], classified |-> FALSE])
    /\ UNCHANGED <<events, buf, accepted, gas_status, extensions>>

\* *ctx.extensions_mut().get_mut::<ty>() = st
ExtensionsMut(ty, st) ==
    /\ CanCallView
    /\ extensions' = NativeContextExtensions_set(extensions_mut(extensions), ty, st)
    /\ Called("extensions_mut", <<ty>>,
              [ret |-> Ref(NativeContextExtensions_get(extensions_mut(extensions), ty)),
               collab |-> [tag |-> "Ref"], classified |-> FALSE])
    /\ UNCHANGED <<events, buf, accepted, gas_status>>

ViewsNext ==
    \/ Invoke
    \/ \E guid \in Guids, seq_num \in SeqNums, ty \in Types, val \in Values,
          response \in Answers({Unit}) :
          CanCallView /\ SaveEvent(guid, seq_num, ty, val, response)
    \/ CanCallView /\ Events
    \/ \E ty \in Types, response \in Answers(TypeTags) :
          CanCallView /\ TypeToTypeTag(ty, response)
    \/ \E ty \in Types, response \in Answers(MoveTypeLayouts) :
          CanCallView /\ TypeToTypeLayout(ty, response)
    \/ \E response \in Answers({Unit}) : CanCallView /\ PrintStackTrace(response)
    \/ CostTable
    \/ \E ty \in ExtensionTypes : Extensions(ty)
    \/ \E ty \in ExtensionTypes, st \in ExtensionStates : ExtensionsMut(ty, st)
    \/ \E result \in {Ok(n) : n \in NativeResults} \cup {Err(e) : e \in PartialVMErrors} :
          NativeReturn(result)

ViewsSpec == ViewsInit /\ [][ViewsNext]_vars

(***************************************************************************)
(* Claims about the registry.                                              *)
(***************************************************************************)
Triple(e) == <<e.addr, e.module_name, e.func_name>>

PairwiseDistinct(t) ==
    \A i, j \in 1..Len(t) : i # j => Triple(t[i]) # Triple(t[j])

\* what the table registers under a triple: the implementation of the entry
\* with that triple, nothing when no entry has it
Registered(t, addr, module_name, func_name) ==
    IF \E i \in 1..Len(t) : Triple(t[i]) = <<addr, module_name, func_name>>
    THEN Some(t[CHOOSE i \in 1..Len(t) : Triple(t[i]) = <<addr, module_name, func_name>>].func)
    ELSE None

\* index of the first entry whose triple an earlier entry already has
FirstDuplicate(t) ==
    CHOOSE j \in 1..Len(t) :
        /\ \E i \in 1..(j - 1) : Triple(t[i]) = Triple(t[j])
        /\ \A k \in 1..(j - 1) : \A i \in 1..(k - 1) : Triple(t[i]) # Triple(t[k])

\* C1: for a registration table with pairwise distinct triples,
\* NativeFunctions::new succeeds, and resolve on the built registry returns the
\* registered implementation for every registered triple and None for every
\* other triple.
C1_DistinctTableResolves ==
    (built # Pending /\ PairwiseDistinct(natives)) =>
        /\ built.tag = "Ok"
        /\ \A addr \in Addresses, module_name \in ModuleNames, func_name \in FunctionNames :
              NativeFunctions_resolve(built.value, addr, module_name, func_name)
                  = Registered(natives, addr, module_name, func_name)
        /\ resolved.tag = "Call" =>
              resolved.result = Registered(natives, resolved.addr,
                                           resolved.module_name, resolved.func_name)

\* a full table of distinct triples was built, two of its entries share address
\* and module, and a resolve of an unregistered triple that shares address and
\* module with a registered one has returned
C1_Witness ==
    /\ built.tag = "Ok"
    /\ Len(natives) >= 3
    /\ \E i, j \in 1..Len(natives) :
          /\ i # j
          /\ natives[i].addr = natives[j].addr
          /\ natives[i].module_name = natives[j].module_name
    /\ resolved.tag = "Call"
    /\ resolved.result = None
    /\ \E i \in 1..Len(natives) :
          /\ natives[i].addr = resolved.addr
          /\ natives[i].module_name = resolved.module_name

\* C2: for a registration table with two entries of the same triple,
\* NativeFunctions::new fails with DUPLICATE_NATIVE_FUNCTION at the first entry
\* whose triple already exists, and the caller holds that error only: no
\* registry and no partially populated map, wherever the duplicate stands.
C2_DuplicateFailsAtomically ==
    (built # Pending /\ ~PairwiseDistinct(natives)) =>
        /\ built = Err(PartialVMError_new("DUPLICATE_NATIVE_FUNCTION"))
        /\ DOMAIN built = {"tag", "err"}
        /\ consumed = FirstDuplicate(natives)
        /\ resolved = NoCall

\* new failed on the last entry of a full table, after two entries were inserted
C2_Witness ==
    /\ built.tag = "Err"
    /\ Len(natives) >= 3
    /\ consumed = Len(natives)
    /\ Triple(natives[1]) # Triple(natives[2])

\* the level at which the registry misses a query: "address", "module",
\* "function", or "hit"
MissLevel(t, addr, module_name, func_name) ==
    IF ~\E i \in 1..Len(t) : t[i].addr = addr THEN "address"
    ELSE IF ~\E i \in 1..Len(t) : t[i].addr = addr /\ t[i].module_name = module_name
         THEN "module"
    ELSE IF ~\E i \in 1..Len(t) : Triple(t[i]) = <<addr, module_name, func_name>>
         THEN "function"
    ELSE "hit"

\* C11: resolve never raises an error: on every built registry and for every
\* query, the result is an Option, and a miss at the address, the module or
\* the function level is None.
C11_ResolveMissIsNone ==
    built.tag = "Ok" =>
        /\ \A addr \in Addresses, module_name \in ModuleNames, func_name \in FunctionNames :
              LET r == NativeFunctions_resolve(built.value, addr, module_name, func_name)
              IN  /\ r.tag \in {"None", "Some"}
                  /\ MissLevel(natives, addr, module_name, func_name) # "hit" => r = None
        /\ resolved.tag = "Call" =>
              /\ resolved.result.tag \in {"None", "Some"}
              /\ MissLevel(natives, resolved.addr, resolved.module_name, resolved.func_name) # "hit"
                    => resolved.result = None

\* a resolve of a known address with an unknown module has returned None on a
\* registry that also misses an address and, under a known module, a function
C11_Witness ==
    /\ built.tag = "Ok"
    /\ resolved.tag = "Call"
    /\ MissLevel(natives, resolved.addr, resolved.module_name, resolved.func_name) = "module"
    /\ resolved.result = None
    /\ \E addr \in Addresses, module_name \in ModuleNames, func_name \in FunctionNames :
          MissLevel(natives, addr, module_name, func_name) = "address"
    /\ \E addr \in Addresses, module_name \in ModuleNames, func_name \in FunctionNames :
          MissLevel(natives, addr, module_name, func_name) = "function"

\* C12: the built registry is immutable: no read of a resolve call changes the
\* mapping, and under every interleaving of the resolve calls of the VM
\* instances each call returns what it returns alone on the freshly built
\* registry.
C12_SharedRegistryImmutable ==
    built.tag = "Ok" =>
        /\ built = NativeFunctions_new(natives).result
        /\ \A v \in VMs : vm[v].pc = "done" =>
              vm[v].result = NativeFunctions_resolve(NativeFunctions_new(natives).result.value,
                                 vm[v].query[1], vm[v].query[2], vm[v].query[3])

\* while vm1 is in the middle of a call, past the address and the module
\* level, vm2 has finished a call that missed another address, on a registry
\* of two entries
C12_Witness ==
    /\ built.tag = "Ok"
    /\ Len(natives) >= 2
    /\ vm["vm1"].pc = "function"
    /\ vm["vm2"].pc = "done"
    /\ vm["vm2"].result = None
    /\ vm["vm2"].query[1] # vm["vm1"].query[1]

\* the raw entry names only legal identifiers
RawEntryValid(e) == Identifier_is_valid(e.module_name) /\ Identifier_is_valid(e.func_name)

\* C13: make_table and make_table_from_iter fail at construction time when a
\* module-name or function-name text is not a legal identifier: the call
\* panics at the first such entry and returns no table, in particular not the
\* table of the valid entries around it.
C13_InvalidNamePanics ==
    (made.tag # "Pending" /\ \E i \in 1..Len(raw) : ~RawEntryValid(raw[i])) =>
        /\ made.tag = "Panic"
        /\ "value" \notin DOMAIN made
        /\ ~RawEntryValid(raw[made.at])
        /\ \A i \in 1..(made.at - 1) : RawEntryValid(raw[i])

\* make_table has panicked on the second of two entries, the first being valid,
\* on a function name that is a lone underscore
C13_Witness ==
    /\ made.tag = "Panic"
    /\ Len(raw) >= 2
    /\ made.at = 2
    /\ RawEntryValid(raw[1])
    /\ raw[2].func_name = <<"_">>
    /\ Identifier_is_valid(raw[2].module_name)

(***************************************************************************)
(* Claims about the execution context.                                     *)
(***************************************************************************)

\* the step is a save_event call the data store answered with a sub-outcome of S
SaveEventStep(S) ==
    /\ ops' = ops + 1
    /\ call'.op = "save_event"
    /\ SubOutcome("save_event", call'.collab) \in S

\* the last context operation was op
LastCall(op) == call.tag = "Call" /\ call.op = op

\* the event record of the arguments of a save_event call
EventOf(args) == <<args[1], args[2], args[3], EventLayout(args[3]), args[4]>>

\* C3: when the data store accepts the event, save_event returns Ok(true) and
\* events() is the previous log with that one event appended once, as its last
\* element.
C3_AcceptedAppendedOnce ==
    [][SaveEventStep({"Recorded"}) =>
          /\ call'.ret = Ok(TRUE)
          /\ events' = Append(events, EventOf(call'.args))
          /\ events_ref([events |-> events']) = Append(events, EventOf(call'.args))]_vars

\* an accepted save_event has returned on a log that was not empty before
C3_Witness ==
    /\ LastCall("save_event")
    /\ call.collab.tag = "Ok"
    /\ call.ret = Ok(TRUE)
    /\ Len(events) >= 2
    /\ events[Len(events)] = EventOf(call.args)

\* C4: when the data store rejects the event with an invariant violation,
\* save_event returns that same error, unmodified, and events() is unchanged.
C4_FatalRejectPropagates ==
    [][SaveEventStep({"RejectedFatal"}) =>
          /\ call'.ret = Err(call'.collab.err)
          /\ call'.ret = call'.collab
          /\ events' = events]_vars

\* save_event has returned the invariant violation of the store, sub status
\* included, on a log that holds an event
C4_Witness ==
    /\ LastCall("save_event")
    /\ call.collab.tag = "Err"
    /\ is_invariant_violation(call.collab.err)
    /\ call.ret.tag = "Err"
    /\ call.ret.err.sub_status = Some(1)
    /\ Len(events) >= 1

\* C5: when the data store rejects the event with an error of any other class,
\* save_event returns Ok(false), events() is unchanged and the invocation is
\* still Executing with no fatal sub-outcome noted: the native implementation
\* can call further operations and return a normal result.
C5_SoftRejectReturnsFalse ==
    [][SaveEventStep({"RejectedSoft"}) =>
          /\ call'.ret = Ok(FALSE)
          /\ events' = events
          /\ inv' = "Executing"
          /\ fatalAt' = fatalAt]_vars

\* after a rejection of the Verification class returned false, the native
\* implementation returned a successful result
C5_Witness ==
    /\ LastCall("save_event")
    /\ call.collab.tag = "Err"
    /\ status_type(call.collab.err.major_status) = "Verification"
    /\ call.ret = Ok(FALSE)
    /\ inv = "Returned"
    /\ outcome = Ok([kind |-> "Success"])

\* C6: after any sequence of save_event calls of mixed outcomes, events() is
\* the initial log followed by the accepted events in the order of their
\* calls; rejected events are absent, accepted ones are neither reordered,
\* duplicated nor dropped.
C6_EventsInCallOrder ==
    /\ events = events0 \o accepted
    /\ events_ref([events |-> events]) = events0 \o accepted

\* G2 then G1 were accepted with different payloads, around a call that was not
\* accepted, on top of an initial log
C6_Witness ==
    /\ Len(accepted) >= 2
    /\ ops > Len(accepted)
    /\ events0 # <<>>
    /\ accepted[1][1] = "G2"
    /\ accepted[2][1] = "G1"
    /\ accepted[1][5] # accepted[2][5]
    /\ LastCall("save_event")
    /\ call.collab.tag = "Ok"

\* C7: type_to_type_layout returns Ok(Some(layout)) with the resolver's layout,
\* Ok(None) when the resolver fails with an error that is not an invariant
\* violation, and the resolver's error itself when it is an invariant violation.
C7_LayoutThreeWay ==
    LastCall("type_to_type_layout") =>
        /\ call.collab.tag = "Ok" => call.ret = Ok(Some(call.collab.value))
        /\ (call.collab.tag = "Err" /\ ~is_invariant_violation(call.collab.err))
              => call.ret = Ok(None)
        /\ (call.collab.tag = "Err" /\ is_invariant_violation(call.collab.err))
              => call.ret = call.collab

\* the resolver failed on the type parameter T with an Execution error and
\* type_to_type_layout returned "no layout"
C7_Witness ==
    /\ LastCall("type_to_type_layout")
    /\ call.args = <<"T">>
    /\ call.collab.tag = "Err"
    /\ status_type(call.collab.err.major_status) = "Execution"
    /\ call.ret = Ok(None)

\* C8: type_to_type_tag returns the loader's tag on success and propagates
\* every loader failure as an error, whatever its class.
C8_TagAlwaysPropagates ==
    LastCall("type_to_type_tag") =>
        /\ call.ret = call.collab
        /\ call.collab.tag = "Err" => call.ret.tag = "Err"
        /\ call.collab.tag = "Ok" => call.ret = Ok(call.collab.value)

\* the loader failed with an error that is not an invariant violation and
\* type_to_type_tag returned it as an error
C8_Witness ==
    /\ LastCall("type_to_type_tag")
    /\ call.collab.tag = "Err"
    /\ ~is_invariant_violation(call.collab.err)
    /\ call.ret.tag = "Err"

Fallible == {"print_stack_trace", "save_event", "type_to_type_tag", "type_to_type_layout"}

C14_GasNeverCharged ==
    [][/\ gas_status' = gas_status
       /\ (ops' = ops + 1 /\ call'.op = "cost_table")
             => call'.ret = Ref(gas_status.cost_table)]_vars

\* after an event was recorded, cost_table returned the initial cost schedule
\* the invocation runs under
C14_Witness ==
    /\ LastCall("cost_table")
    /\ ops >= 2
    /\ Len(events) >= 1
    /\ gas_status.cost_table = "initial_cost_schedule"
    /\ call.ret = Ref("initial_cost_schedule")

C19_EmitEventOnce ==
    LastCall("save_event") =>
        /\ call.ret \in {Ok(TRUE), Ok(FALSE)} \cup {Err(e) : e \in PartialVMErrors}
        /\ emit_calls = <<call.args>>

\* after an accepted event, the store rejected another event softly:
\* save_event answered false and the store received that event once
C19_Witness ==
    /\ LastCall("save_event")
    /\ call.ret = Ok(FALSE)
    /\ Len(accepted) = 1
    /\ call.args[1] # accepted[1][1]
    /\ emit_calls = <<call.args>>

(***************************************************************************)
(* The language server: the main loop of move-analyzer.  A text is a       *)
(* sequence of pieces, a path a sequence of components, an anyhow error    *)
(* the chain of its texts, outermost first.                                *)
(***************************************************************************)

\* the literal of message.starts_with(..)
ManifestPrefix == <<"Unable to find", " package manifest">>

\* str::starts_with
starts_with(text, pattern) ==
    Len(pattern) <= Len(text) /\ SubSeq(text, 1, Len(pattern)) = pattern

\* errors the symbolicator may send
AnyhowErrors ==
    {<< <<"Unable to find", " package manifest", " in /a">> >>,
     << <<"Unable to find", " package manifest", " at /b">> >>,
     << <<"error: ", "Unable to find", " package manifest">> >>,
     << <<"Compilation failed">>, <<"Unable to find", " package manifest", " in /a">> >>,
     << <<"Unable to find", " module">> >>}

\* format!("{err}"): Display of an anyhow error is its outermost text
format_display(err) == err[1]

\* the files diagnostics may be keyed by, in the order of the BTreeMap
SortedPaths == << <<"/", "pkg", "sources", "m.move">>, <<"sources", "m.move">> >>

\* BTreeMap<Symbol, Vec<Diagnostic>>
DiagMaps == UNION {[S -> {<<"diagnostic">>}] : S \in SUBSET {SortedPaths[i] : i \in 1..Len(SortedPaths)}}

\* the keys of a BTreeMap in iteration order
BTreeMap_keys(diags) == SelectSeq(SortedPaths, LAMBDA k : k \in DOMAIN diags)

\* Path::is_absolute
Path_is_absolute(path) == Len(path) >= 1 /\ path[1] = "/"

\* Url::from_file_path: the file URL of an absolute path, Err(()) otherwise
Url_from_file_path(path) ==
    IF Path_is_absolute(path) THEN Ok(<<"file://">> \o Tail(path)) ELSE Err(Unit)

\* Notification::new
Notification_new(method, params) == [method |-> method, params |-> params]

\* what one turn of the loop did so far: notifications handed to the sender,
\* lines written to stderr, the handler called, and how the turn ends
Turn(reported) ==
    [sent |-> <<>>, log |-> <<>>, handler |-> "none",
     missing_manifest_reported |-> reported, panicked |-> FALSE, break |-> FALSE]

\* connection.sender.send(notification), and the eprintln when it fails
send_or_log(turn, notification, connected, line) ==
    [turn EXCEPT !.sent = Append(@, notification),
                 !.log = IF connected THEN @ ELSE Append(@, line)]

\* the for loop over diags (lines 131-141)
RECURSIVE publish_diags(_, _, _, _)
publish_diags(diags, keys, connected, turn) ==
    IF keys = <<>> THEN turn
    ELSE LET k == Head(keys)
             url == Url_from_file_path(k)
         IN  IF url.tag = "Err"
             THEN [turn EXCEPT !.panicked = TRUE]
             ELSE publish_diags(diags, Tail(keys), connected,
                      send_or_log(turn,
                          Notification_new("textDocument/publishDiagnostics",
                                           <<url.value, diags[k]>>),
                          connected, "could not send diagnostics response"))

\* the arm Err(err) of the symbolicator result (lines 143-163)
on_diag_error(err, reported, connected) ==
    LET message == format_display(err)
        missing_manifest == starts_with(message, ManifestPrefix)
        turn == IF ~missing_manifest \/ ~reported
                THEN send_or_log(Turn(reported),
                         Notification_new("window/showMessage", <<"Error", message>>),
                         connected, "could not send compiler error response")
                ELSE Turn(reported)
    IN  IF missing_manifest
        THEN [turn EXCEPT !.missing_manifest_reported = TRUE]
        ELSE turn

\* what the symbolicator channel may yield
DiagMessages ==
    {Ok(Ok(diags)) : diags \in DiagMaps} \cup {Ok(Err(err)) : err \in AnyhowErrors}
        \cup {Err("RecvError")}

\* mutant: a successful diagnostics result resets the flag
on_diag_message_reset(message, reported, connected) ==
    IF message.tag = "Err"
    THEN [Turn(reported) EXCEPT !.log = <<"symbolicator message error">>]
    ELSE IF message.value.tag = "Ok"
         THEN publish_diags(message.value.value, BTreeMap_keys(message.value.value),
                            connected, Turn(FALSE))
    ELSE on_diag_error(message.value.err, reported, connected)

\* the arm recv(diag_receiver) of the select (lines 126-168)
on_diag_message(message, reported, connected) ==
    IF message.tag = "Err"
    THEN [Turn(reported) EXCEPT !.log = <<"symbolicator message error">>]
    ELSE IF message.value.tag = "Ok"
         THEN publish_diags(message.value.value, BTreeMap_keys(message.value.value),
                            connected, Turn(reported))
    ELSE on_diag_error(message.value.err, reported, connected)

\* methods of the requests and notifications a client may send
RequestMethods ==
    {"textDocument/completion", "textDocument/definition", "textDocument/typeDefinition",
     "textDocument/references", "textDocument/hover", "workspace/symbol"}
NotificationMethods ==
    {"exit", "$/cancelRequest", "textDocument/didOpen", "textDocument/didChange",
     "textDocument/didSave", "textDocument/didClose", "initialized"}

\* what the client channel may yield
ClientMessages ==
    {Ok([kind |-> "Request", method |-> m]) : m \in RequestMethods}
        \cup {Ok([kind |-> "Response"])}
        \cup {Ok([kind |-> "Notification", method |-> m]) : m \in NotificationMethods}
        \cup {Err("RecvError")}

\* context.symbols.lock().unwrap(), then the handler; a poisoned lock panics
with_symbols(turn, handler, poisoned) ==
    IF poisoned THEN [turn EXCEPT !.panicked = TRUE] ELSE [turn EXCEPT !.handler = handler]

\* on_request
on_request(request, reported, poisoned) ==
    CASE request.method = "textDocument/completion" ->
             [Turn(reported) EXCEPT !.handler = "on_completion_request"]
      [] request.method = "textDocument/definition" ->
             with_symbols(Turn(reported), "on_go_to_def_request", poisoned)
      [] request.method = "textDocument/typeDefinition" ->
             with_symbols(Turn(reported), "on_go_to_type_def_request", poisoned)
      [] request.method = "textDocument/references" ->
             with_symbols(Turn(reported), "on_references_request", poisoned)
      [] request.method = "textDocument/hover" ->
             with_symbols(Turn(reported), "on_hover_request", poisoned)
      [] OTHER -> [Turn(reported) EXCEPT !.log = <<"handle request from client">>]

\* on_response
on_response(response, reported) ==
    [Turn(reported) EXCEPT !.log = <<"handle response from client">>]

\* on_notification
on_notification(notification, reported) ==
    IF notification.method \in {"textDocument/didOpen", "textDocument/didChange",
                                "textDocument/didSave", "textDocument/didClose"}
    THEN [Turn(reported) EXCEPT !.handler = "on_text_document_sync_notification"]
    ELSE [Turn(reported) EXCEPT !.log = <<"handle notification from client">>]

\* the arm recv(context.connection.receiver) of the select (lines 169-186)
on_client_message(message, reported, poisoned) ==
    IF message.tag = "Err"
    THEN [Turn(reported) EXCEPT !.log = <<"IDE message error">>]
    ELSE CASE message.value.kind = "Request" -> on_request(message.value, reported, poisoned)
           [] message.value.kind = "Response" -> on_response(message.value, reported)
           [] message.value.kind = "Notification" ->
                  CASE message.value.method = "exit" -> [Turn(reported) EXCEPT !.break = TRUE]
                    [] message.value.method = "$/cancelRequest" -> Turn(reported)
                    [] OTHER -> on_notification(message.value, reported)

\* the symbolicator error is one the claim calls a missing-manifest error:
\* the text shown for it begins with the two pieces of the prefix
IsMissingManifestError(message) ==
    /\ message.tag = "Ok"
    /\ message.value.tag = "Err"
    /\ Len(message.value.err[1]) >= 2
    /\ message.value.err[1][1] = "Unable to find"
    /\ message.value.err[1][2] = " package manifest"

ServerInit ==
    /\ natives = <<>>
    /\ RegistryIdle
    /\ events = <<>>
    /\ events0 = <<>>
    /\ ContextIdle
    /\ ViewsIdle
    /\ SharedIdle
    /\ TableIdle
    /\ ServerIdle
    /\ TwinIdle

outsideServer == <<registryVars, contextVars, viewVars, sharedVars, tableVars, twin>>

\* one turn of the loop ended as turn says
TurnDone(from, message, turn) ==
    /\ server' = IF turn.panicked THEN "Panicked"
                 ELSE IF turn.break THEN "Left" ELSE "Loop"
    /\ missing_manifest_reported' = turn.missing_manifest_reported
    /\ handled' = handled + 1
    /\ last' = [from |-> from, message |-> message, sent |-> turn.sent,
                log |-> turn.log, handler |-> turn.handler]
    /\ UNCHANGED outsideServer

\* select takes a message of the symbolicator; connected: the client still reads
DiagReceived(message, connected) ==
    /\ server = "Loop"
    /\ handled < MaxMsgs
    /\ TurnDone("symbolicator", message,
                on_diag_message(message, missing_manifest_reported, connected))
    /\ manifest_seen' = IF IsMissingManifestError(message)
                        THEN manifest_seen + 1 ELSE manifest_seen
    /\ UNCHANGED exit_received

\* select takes a message of the client; poisoned: a thread panicked holding
\* the lock of the symbols
ClientReceived(message, poisoned) ==
    /\ server = "Loop"
    /\ handled < MaxMsgs
    /\ TurnDone("client", message,
                on_client_message(message, missing_manifest_reported, poisoned))
    /\ exit_received' = (exit_received \/ message = Ok([kind |-> "Notification", method |-> "exit"]))
    /\ UNCHANGED manifest_seen

\* io_threads.join().expect(..)
Join(result) ==
    /\ server = "Left"
    /\ server' = IF result.tag = "Ok" THEN "Joined" ELSE "Panicked"
    /\ UNCHANGED <<missing_manifest_reported, exit_received, handled, manifest_seen, last>>
    /\ UNCHANGED outsideServer

\* symbolicator_runner.quit()
Quit ==
    /\ server = "Joined"
    /\ server' = "Quit"
    /\ UNCHANGED <<missing_manifest_reported, exit_received, handled, manifest_seen, last>>
    /\ UNCHANGED outsideServer

ServerNext ==
    \/ \E message \in DiagMessages, connected \in BOOLEAN : DiagReceived(message, connected)
    \/ \E message \in ClientMessages, poisoned \in BOOLEAN : ClientReceived(message, poisoned)
    \/ \E result \in {Ok(Unit), Err("io::Error")} : Join(result)
    \/ Quit

ServerSpec == ServerInit /\ [][ServerNext]_vars

(***************************************************************************)
(* Claims about the language server.                                       *)
(***************************************************************************)

\* the ShowMessage notifications among those handed to the sender
ShowMessages(sent) == SelectSeq(sent, LAMBDA n : n.method = "window/showMessage")

\* C17: a missing-manifest error gets a ShowMessage attempt the first time the
\* symbolicator sends one and never afterwards, whatever was received in
\* between; every other symbolicator error gets one ShowMessage attempt each
\* time; the flag is never reset.
C17_ManifestReportedOnce ==
    [][/\ missing_manifest_reported => missing_manifest_reported'
       /\ (handled' = handled + 1 /\ last'.from = "symbolicator"
             /\ last'.message.tag = "Ok" /\ last'.message.value.tag = "Err")
            => IF IsMissingManifestError(last'.message) /\ manifest_seen > 0
               THEN ShowMessages(last'.sent) = <<>>
               ELSE ShowMessages(last'.sent) =
                      <<[method |-> "window/showMessage",
                         params |-> <<"Error", last'.message.value.err[1]>>]>>]_vars

\* the third message is the second missing-manifest error, with another text
\* than the usual one: nothing is handed to the sender for it
C17_Witness ==
    /\ handled = 3
    /\ manifest_seen = 2
    /\ last.from = "symbolicator"
    /\ last.message = Ok(Err(<< <<"Unable to find", " package manifest", " at /b">> >>))
    /\ last.sent = <<>>
    /\ missing_manifest_reported

\* C18: the main loop is left if and only if the client sent an Exit
\* notification; a Cancel notification changes nothing; a failed send and an
\* error of either channel are only logged and the loop goes on; the I/O
\* threads are joined and the symbolicator runner is quit only after the loop
\* was left.
C18_LoopLeftIffExit ==
    /\ (server # "Loop") <=> exit_received
    /\ server \in {"Joined", "Quit"} => exit_received
    /\ (last # NoTurn /\ last.message = Ok([kind |-> "Notification", method |-> "$/cancelRequest"]))
         => (last.sent = <<>> /\ last.log = <<>> /\ last.handler = "none")
    /\ (last # NoTurn /\ last.message = Err("RecvError")) => Len(last.log) = 1

(***************************************************************************)
(* Two invocations of one native implementation, side by side.  The        *)
(* implementation is a function of what the context answers, so both make  *)
(* the same calls and get the same answers; they differ in that L also     *)
(* calls print_stack_trace and R does not.  What the implementation does   *)
(* with an error a context operation answers is its choice: it goes on, or *)
(* it returns the error at once (the ? operator).                          *)
(***************************************************************************)

\* mutant: the dump is also recorded as an event
print_stack_trace_self_record(self, sink) ==
    LET r == print_stack_trace(self.interpreter, sink)
    IN  [self |-> [self EXCEPT !.events =
                       Append(@, <<"G0", 0, "u64", "layout_u64", "stack trace">>)],
         ret |-> r.ret, buf |-> r.buf]

\* NativeContext::print_stack_trace together with the context it borrows as
\* &self: the context is left as it is
print_stack_trace_self(self, sink) ==
    LET r == print_stack_trace(self.interpreter, sink)
    IN  [self |-> self, ret |-> r.ret, buf |-> r.buf]

Running(run) == run.outcome = Pending

\* what the native implementation does with the answer ret of a context
\* operation: with propagate it returns an error at once
AfterAnswer(ret, propagate) ==
    IF propagate /\ ret.tag = "Err" THEN ret ELSE Pending

\* run after ctx.save_event(guid, seq_num, ty, val) against a store that answers response
RunSaveEvent(run, guid, seq_num, ty, val, response, propagate) ==
    IF ~Running(run) THEN run
    ELSE LET r == save_event([events |-> run.events, response |-> response, calls |-> <<>>],
                             guid, seq_num, ty, val)
         IN  [run EXCEPT !.events = r.data_store.events,
                         !.outcome = AfterAnswer(r.ret, propagate)]

TwinInit ==
    /\ natives = <<>>
    /\ RegistryIdle
    /\ events = <<>>
    /\ events0 = <<>>
    /\ ContextIdle
    /\ ViewsIdle
    /\ SharedIdle
    /\ TableIdle
    /\ ServerIdle
    /\ TwinIdle

outsideTwin == <<registryVars, contextVars, viewVars, sharedVars, tableVars, serverVars>>

\* both invocations call save_event
TwinSaveEvent(guid, seq_num, ty, val, response, propagate) ==
    /\ Running(twin.R)
    /\ twin.ops < MaxTwinOps
    /\ twin' = [twin EXCEPT
           !.L = RunSaveEvent(@, guid, seq_num, ty, val, response, propagate),
           !.R = RunSaveEvent(@, guid, seq_num, ty, val, response, propagate),
           !.ops = @ + 1]
    /\ UNCHANGED outsideTwin

\* L calls print_stack_trace, R has no such call
TwinPrintStackTrace(response, propagate) ==
    /\ Running(twin.L)
    /\ Running(twin.R)
    /\ twin.ops < MaxTwinOps
    /\ LET r == print_stack_trace_self(
                    [events |-> twin.L.events, interpreter |-> [response |-> response]],
                    twin.L.buf)
       IN  twin' = [twin EXCEPT
               !.L = [events |-> r.self.events, buf |-> r.buf,
                      outcome |-> AfterAnswer(r.ret, propagate)],
               !.ops = @ + 1,
               !.traces = @ + 1,
               !.propagated = @ \/ (propagate /\ r.ret.tag = "Err")]
    /\ UNCHANGED outsideTwin

\* the native implementation returns result in every invocation that still runs
TwinReturn(result) ==
    /\ Running(twin.R)
    /\ twin' = [twin EXCEPT
           !.L = IF Running(@) THEN [@ EXCEPT !.outcome = result] ELSE @,
           !.R = [@ EXCEPT !.outcome = result]]
    /\ UNCHANGED outsideTwin

TwinNext ==
    \/ \E guid \in Guids, seq_num \in SeqNums, ty \in Types, val \in Values,
          response \in Answers({Unit}), propagate \in BOOLEAN :
          TwinSaveEvent(guid, seq_num, ty, val, response, propagate)
    \/ \E response \in Answers({Unit}), propagate \in BOOLEAN :
          TwinPrintStackTrace(response, propagate)
    \/ \E result \in {Ok(n) : n \in NativeResults} \cup {Err(e) : e \in PartialVMErrors} :
          TwinReturn(result)

TwinSpec == TwinInit /\ [][TwinNext]_vars

(***************************************************************************)
(* Claims about print_stack_trace.                                         *)
(***************************************************************************)

BothEnded == ~Running(twin.L) /\ ~Running(twin.R)

====
